---- MODULE Spec2Model ----
(***************************************************************************)
(* Replay memories of mushroom_rl/utils/replay_memory.py:                  *)
(*   ReplayMemory            - ring buffer of transitions                  *)
(*   SumTree                 - sum tree over leaf priorities               *)
(*   PrioritizedReplayMemory - a SumTree of transitions                    *)
(*   SequentialReplayMemory  - whole episodes, windowed sampling           *)
(* Python lists and numpy arrays are 0-based functions here; episodes and  *)
(* datasets (only appended to, sliced and iterated) are sequences.         *)
(***************************************************************************)
EXTENDS Integers, Sequences, FiniteSets, TLC

VARIABLES
    fed,        \* transitions the training loop has produced so far
    rm,         \* the ReplayMemory object
    rm_hist,    \* history: transitions given to rm.add since construction/reset
    rm_out,     \* outcome of the last ReplayMemory call
    pm,         \* the PrioritizedReplayMemory object; pm.tree is its SumTree
    pm_out,     \* outcome of the last PrioritizedReplayMemory / SumTree call
    sq,         \* the SequentialReplayMemory object
    sq_accepted,\* history: episodes sq.add stored since construction/reset
    sq_call,    \* history: input and split of the last sq.add
    sq_out      \* outcome of the last SequentialReplayMemory call

ringVars == <<rm, rm_hist, rm_out>>
treeVars == <<pm, pm_out>>
seqVars == <<sq, sq_accepted, sq_call, sq_out>>
vars == <<fed, ringVars, treeVars, seqVars>>

----------------------------------------------------------------------------
(* Bounds of the model *)

\* largest max_size of a ReplayMemory or SumTree
MaxCap == 2
\* largest initial_size
MaxInit == 1
\* transitions the training loop produces in one run
MaxFed == 4
\* longest dataset given to ReplayMemory.add / PrioritizedReplayMemory.add
MaxBatch == 2
\* largest n_samples / batch_size asked of a get
MaxSamples == 1
\* largest max_size of a SumTree
TreeMaxCap == 3
\* transitions the training loop produces for the prioritized memory
TreeMaxFed == 3
\* frames the interpreter has left when SumTree.update is called
\* (sys.getrecursionlimit() minus the depth of the caller)
RecursionLimit == 4
\* largest max_size of a SequentialReplayMemory
SeqMaxCap == 3
\* largest unroll_steps
MaxUnroll == 2
\* largest initial_size of a SequentialReplayMemory
SeqMaxInit == 2
\* transitions the training loop produces for the sequential memory
SeqMaxFed == 4

----------------------------------------------------------------------------
(* Values *)

\* Python's None, and a slot holding a value
None == <<>>
Some(v) == <<v>>

Min(a, b) == IF a <= b THEN a ELSE b
Range(f) == {f[x] : x \in DOMAIN f}

\* outcomes of a call
NoCall == [op |-> "", kind |-> "none", val |-> <<>>]
Raised(op, e) == [op |-> op, kind |-> "error", val |-> <<e>>]
Returned(op, v) == [op |-> op, kind |-> "return", val |-> v]

\* (absorbing, last) of a step: inside an episode, end of an episode at an
\* absorbing state, end of an episode by truncation
FlagPairs == {<<FALSE, FALSE>>, <<TRUE, TRUE>>, <<FALSE, TRUE>>}

\* The transition (state, action, reward, next_state, absorbing, last) of the
\* id-th step the training loop produced; the six fields of one step differ
\* from each other and from those of every other step.
Transition(id, fl) == <<4 * id, 4 * id + 1, 4 * id + 2, 4 * id + 3, fl[1], fl[2]>>

\* the datasets of n steps that the training loop can hand over after it has
\* produced `from` steps
Datasets(from, n) ==
    {[i \in 1..n |-> Transition(from + i, fs[i])] : fs \in [1..n -> FlagPairs]}

----------------------------------------------------------------------------
(* ReplayMemory *)

\* ReplayMemory.reset
RM_reset(m) ==
    LET empty == [i \in 0..(m.max_size - 1) |-> None]
    IN  [m EXCEPT !.idx = 0, !.full = FALSE,
                  !.states = empty, !.actions = empty, !.rewards = empty,
                  !.next_states = empty, !.absorbing = empty, !.last = empty]

\* ReplayMemory.__init__
RM_init(initial_size, max_size) ==
    RM_reset([initial_size |-> initial_size, max_size |-> max_size,
              idx |-> 0, full |-> FALSE,
              states |-> <<>>, actions |-> <<>>, rewards |-> <<>>,
              next_states |-> <<>>, absorbing |-> <<>>, last |-> <<>>])

\* a plausible slip of the loop body of add: the wrap-around forgets _full
RM_add_step_noFull(m, t) ==
    LET w == [m EXCEPT !.states[m.idx] = Some(t[1]),
                       !.actions[m.idx] = Some(t[2]),
                       !.rewards[m.idx] = Some(t[3]),
                       !.next_states[m.idx] = Some(t[4]),
                       !.absorbing[m.idx] = Some(t[5]),
                       !.last[m.idx] = Some(t[6])]
    IN  IF m.idx + 1 = m.max_size
        THEN [w EXCEPT !.idx = 0]
        ELSE [w EXCEPT !.idx = m.idx + 1]

\* one iteration of the loop of ReplayMemory.add
RM_add_step(m, t) ==
    LET w == [m EXCEPT !.states[m.idx] = Some(t[1]),
                       !.actions[m.idx] = Some(t[2]),
                       !.rewards[m.idx] = Some(t[3]),
                       !.next_states[m.idx] = Some(t[4]),
                       !.absorbing[m.idx] = Some(t[5]),
                       !.last[m.idx] = Some(t[6])]
    IN  IF m.idx + 1 = m.max_size
        THEN [w EXCEPT !.full = TRUE, !.idx = 0]
        ELSE [w EXCEPT !.idx = m.idx + 1]

\* ReplayMemory.add
RECURSIVE RM_add(_, _)
RM_add(m, dataset) ==
    IF dataset = <<>> THEN m
    ELSE RM_add(RM_add_step(m, Head(dataset)), Tail(dataset))

\* ReplayMemory.size
RM_size(m) == IF ~m.full THEN m.idx ELSE m.max_size

\* a plausible slip of initialized: size >= initial_size
RM_initialized_atLeast(m) == RM_size(m) >= m.initial_size

\* ReplayMemory.initialized
RM_initialized(m) == RM_size(m) > m.initial_size

\* The batch ReplayMemory.get builds from the drawn indices: six arrays
\* aligned by position.
RM_batch(m, draws) ==
    <<[k \in DOMAIN draws |-> m.states[draws[k]][1]],
      [k \in DOMAIN draws |-> m.actions[draws[k]][1]],
      [k \in DOMAIN draws |-> m.rewards[draws[k]][1]],
      [k \in DOMAIN draws |-> m.next_states[draws[k]][1]],
      [k \in DOMAIN draws |-> m.absorbing[draws[k]][1]],
      [k \in DOMAIN draws |-> m.last[draws[k]][1]]>>

\* a plausible slip of get: an empty buffer yields an empty batch
RM_get_clamped(m, n_samples) ==
    IF RM_size(m) <= 0
    THEN {Returned("get", <<>>)}
    ELSE {Returned("get", RM_batch(m, draws)) :
            draws \in [1..n_samples -> 0..(RM_size(m) - 1)]}

\* ReplayMemory.get: every outcome the random draws allow.
\* np.random.randint(high, size=n) raises ValueError when high <= 0.
RM_get(m, n_samples) ==
    IF RM_size(m) <= 0
    THEN {Raised("get", "ValueError")}
    ELSE {Returned("get", RM_batch(m, draws)) :
            draws \in [1..n_samples -> 0..(RM_size(m) - 1)]}

----------------------------------------------------------------------------
(* The ReplayMemory under a training loop *)

\* the objects a specification does not exercise
Idle == [kind |-> "idle"]

\* sq_call before the first add
NoSplit == [input |-> <<>>, episodes |-> <<>>, rest |-> <<>>, stored |-> <<>>]

IdleRing == rm = Idle /\ rm_hist = <<>> /\ rm_out = NoCall
IdleTree == pm = Idle /\ pm_out = NoCall
IdleSeq == sq = Idle /\ sq_accepted = <<>> /\ sq_call = NoSplit /\ sq_out = NoCall

InitRing ==
    /\ fed = 0
    /\ IdleTree /\ IdleSeq
    /\ \E initial_size \in 0..MaxInit, max_size \in 1..MaxCap :
           rm = RM_init(initial_size, max_size)
    /\ rm_hist = <<>>
    /\ rm_out = NoCall

RingAdd ==
    \E n \in 0..MaxBatch :
        /\ rm # Idle
        /\ fed + n <= MaxFed
        /\ \E dataset \in Datasets(fed, n) :
               /\ rm' = RM_add(rm, dataset)
               /\ rm_hist' = rm_hist \o dataset
        /\ fed' = fed + n
        /\ rm_out' = Returned("add", None)
        /\ UNCHANGED <<treeVars, seqVars>>

RingGet ==
    \E n_samples \in 1..MaxSamples :
        /\ rm # Idle
        /\ rm_out' \in RM_get(rm, n_samples)
        /\ UNCHANGED <<fed, rm, rm_hist, treeVars, seqVars>>

RingReset ==
    /\ rm # Idle
    /\ rm' = RM_reset(rm)
    /\ rm_hist' = <<>>
    /\ rm_out' = Returned("reset", None)
    /\ UNCHANGED <<fed, treeVars, seqVars>>

NextRing == RingAdd \/ RingGet \/ RingReset

SpecRing == InitRing /\ [][NextRing]_vars

----------------------------------------------------------------------------
(* C1 *)

\* the transition stored in slot i of the six arrays, None for an empty slot
RM_slot(m, i) ==
    IF m.states[i] = None THEN None
    ELSE <<m.states[i][1], m.actions[i][1], m.rewards[i][1],
           m.next_states[i][1], m.absorbing[i][1], m.last[i][1]>>

\* C1: ring invariant of ReplayMemory. With total = the number of
\* transitions added since construction or reset: size = min(total,
\* max_size); size = max_size if _full, else _idx; the write cursor is
\* total mod max_size; each slot holds the latest transition written at its
\* position, so once total >= max_size the slots hold exactly the most
\* recent max_size transitions and the cursor is on the oldest of them.
C1_RingInvariant ==
    LET total == Len(rm_hist)
        cap == rm.max_size
    IN  /\ RM_size(rm) = Min(total, cap)
        /\ RM_size(rm) = (IF rm.full THEN cap ELSE rm.idx)
        /\ rm.full = (total >= cap)
        /\ rm.idx = total % cap
        /\ \A i \in 0..(cap - 1) :
               IF i >= total
               THEN RM_slot(rm, i) = None
               ELSE \E k \in 1..total :
                        /\ (k - 1) % cap = i
                        /\ k + cap > total
                        /\ RM_slot(rm, i) = rm_hist[k]
        /\ total >= cap =>
               {RM_slot(rm, i) : i \in 0..(cap - 1)}
                   = {rm_hist[k] : k \in (total - cap + 1)..total}

\* C1 witness: more transitions were added than the buffer holds, in a
\* buffer of more than one slot whose cursor is inside the array
C1_Witness ==
    /\ Len(rm_hist) > rm.max_size
    /\ rm.max_size > 1
    /\ rm.idx > 0
    /\ rm.full

----------------------------------------------------------------------------
(* SumTree *)

\* The priorities the callers pass. They are even, so that an odd sample
\* value s stands for every real strictly between its two even neighbours:
\* _retrieve only compares s, less sums of tree nodes, with tree nodes.
Priorities == {-2, 0, 10}

Abs(x) == IF x < 0 THEN -x ELSE x
Max(a, b) == IF a >= b THEN a ELSE b

\* numpy's a[i] for an array of length n: a negative index counts from the end
NpIndex(i, n) == IF i < 0 THEN i + n ELSE i

\* SumTree.__init__
ST_init(max_size) ==
    [max_size |-> max_size,
     tree |-> [i \in 0..(2 * max_size - 2) |-> 0],
     data |-> [i \in 0..(max_size - 1) |-> None],
     idx |-> 0,
     full |-> FALSE]

\* SumTree._propagate with `frames` frames left on the interpreter's stack:
\* the tree it leaves, and whether the recursion ended in a RecursionError.
RECURSIVE ST_propagate(_, _, _, _)
ST_propagate(tree, delta, idx, frames) ==
    IF frames = 0
    THEN [tree |-> tree, raised |-> TRUE]
    ELSE LET parent_idx == (idx - 1) \div 2
             n == Cardinality(DOMAIN tree)
             t1 == [tree EXCEPT ![NpIndex(parent_idx, n)] = @ + delta]
         IN  IF parent_idx # 0
             THEN ST_propagate(t1, delta, parent_idx, frames - 1)
             ELSE [tree |-> t1, raised |-> FALSE]

\* a plausible slip of update: the difference taken the wrong way round
ST_delta_swapped(p, old) == old - p

\* the delta of SumTree.update
ST_delta(p, old) == p - old

\* SumTree.update: the object it leaves and whether it raised
RECURSIVE ST_update(_, _, _)
ST_update(st, idx, priorities) ==
    IF idx = <<>> \/ priorities = <<>>
    THEN [st |-> st, raised |-> FALSE]
    ELSE LET i == Head(idx)
             p == Head(priorities)
             delta == ST_delta(p, st.tree[i])
             r == ST_propagate([st.tree EXCEPT ![i] = p], delta, i,
                               RecursionLimit)
             st1 == [st EXCEPT !.tree = r.tree]
         IN  IF r.raised
             THEN [st |-> st1, raised |-> TRUE]
             ELSE ST_update(st1, Tail(idx), Tail(priorities))

\* SumTree.add: the object it leaves and whether it raised
RECURSIVE ST_add(_, _, _)
ST_add(st, dataset, priority) ==
    IF dataset = <<>> \/ priority = <<>>
    THEN [st |-> st, raised |-> FALSE]
    ELSE LET idx == st.idx + st.max_size - 1
             st1 == [st EXCEPT !.data[st.idx] = Head(dataset)]
             r == ST_update(st1, <<idx>>, <<Head(priority)>>)
             st2 == IF r.st.idx + 1 = r.st.max_size
                    THEN [r.st EXCEPT !.idx = 0, !.full = TRUE]
                    ELSE [r.st EXCEPT !.idx = @ + 1]
         IN  IF r.raised
             THEN r
             ELSE ST_add(st2, Tail(dataset), Tail(priority))

\* a plausible slip of _retrieve: at a tie the chosen child is returned
\* without descending into it
RECURSIVE ST_retrieve_noDescent(_, _, _)
ST_retrieve_noDescent(tree, s, idx) ==
    LET left == 2 * idx + 1
        right == left + 1
    IN  IF left >= Cardinality(DOMAIN tree)
        THEN {idx}
        ELSE IF tree[left] = tree[right]
        THEN {left, right}
        ELSE IF s <= tree[left]
        THEN ST_retrieve_noDescent(tree, s, left)
        ELSE ST_retrieve_noDescent(tree, s - tree[left], right)

\* SumTree._retrieve: the indices the descent can end at, over the random
\* choices at ties
RECURSIVE ST_retrieve(_, _, _)
ST_retrieve(tree, s, idx) ==
    LET left == 2 * idx + 1
        right == left + 1
    IN  IF left >= Cardinality(DOMAIN tree)
        THEN {idx}
        ELSE IF tree[left] = tree[right]
        THEN ST_retrieve(tree, s, left) \cup ST_retrieve(tree, s, right)
        ELSE IF s <= tree[left]
        THEN ST_retrieve(tree, s, left)
        ELSE ST_retrieve(tree, s - tree[left], right)

\* SumTree.get: the triples (idx, priority, data) it can return
ST_get(st, s) ==
    {<<idx, st.tree[idx], st.data[NpIndex(idx - st.max_size + 1, st.max_size)]>> :
        idx \in ST_retrieve(st.tree, s, 0)}

\* SumTree.size
ST_size(st) == IF ~st.full THEN st.idx ELSE st.max_size

\* the largest element of a non-empty finite set of integers
SetMax(S) == CHOOSE x \in S : \A y \in S : y <= x

\* SumTree.max_p: the maximum of the last max_size entries of _tree
ST_max_p(st) ==
    LET n == Cardinality(DOMAIN st.tree)
    IN  SetMax({st.tree[i] : i \in (n - st.max_size)..(n - 1)})

\* SumTree.total_p
ST_total_p(st) == st.tree[0]

----------------------------------------------------------------------------
(* PrioritizedReplayMemory *)

\* PrioritizedReplayMemory.__init__ (alpha and epsilon only shape the
\* priorities the caller derives from errors; beta is a positive, fractional
\* exponent)
PRM_init(initial_size, max_size) ==
    [initial_size |-> initial_size,
     max_size |-> max_size,
     tree |-> ST_init(max_size)]

\* PrioritizedReplayMemory.add
PRM_add(m, dataset, p) ==
    LET r == ST_add(m.tree, dataset, p)
    IN  [m |-> [m EXCEPT !.tree = r.st], raised |-> r.raised]

\* The values np.random.uniform(a, b) can draw for segment i of n, with
\* a = i * total_p / n and b = (i + 1) * total_p / n: an even c is the real c,
\* an odd c any real strictly between c - 1 and c + 1. uniform returns
\* a + (b - a) * u for a u in [0, 1).
PRM_samples(total_p, n, i) ==
    LET lo == i * total_p
        hi == (i + 1) * total_p
        cand == (Min(lo, hi) \div n - 2)..(Max(lo, hi) \div n + 2)
    IN  IF total_p = 0 THEN {0}
        ELSE IF total_p > 0
        THEN {c \in cand :
                IF c % 2 = 0
                THEN lo <= c * n /\ c * n < hi
                ELSE lo < (c + 1) * n /\ (c - 1) * n < hi}
        ELSE {c \in cand :
                IF c % 2 = 0
                THEN hi < c * n /\ c * n <= lo
                ELSE hi < (c + 1) * n /\ (c - 1) * n < lo}

\* (size * p / total_p) ** -beta in float64 arithmetic: "pos" a finite
\* positive number, "inf", "zero", or "nan"
PRM_raw_weight(size, total_p, p) ==
    LET prob == IF total_p # 0
                THEN (IF p = 0 THEN "0"
                      ELSE IF (p > 0) = (total_p > 0) THEN "+" ELSE "-")
                ELSE (IF p = 0 THEN "nan"
                      ELSE IF p > 0 THEN "+inf" ELSE "-inf")
        x == IF size = 0
             THEN (IF prob \in {"0", "+", "-"} THEN "0" ELSE "nan")
             ELSE prob
    IN  CASE x = "+" -> "pos"
          [] x = "0" -> "inf"
          [] x = "+inf" -> "zero"
          [] x = "-inf" -> "zero"
          [] x = "-" -> "nan"
          [] x = "nan" -> "nan"

\* a normalised importance weight: (num / den) ** beta, zero or nan
Weight(kind, num, den) == [kind |-> kind, num |-> num, den |-> den]

\* is_weight / is_weight.max() of PrioritizedReplayMemory.get for the
\* sampled priorities ps
PRM_weights(size, total_p, ps) ==
    LET raw == [k \in DOMAIN ps |-> PRM_raw_weight(size, total_p, ps[k])]
        kinds == Range(raw)
        \* the largest raw weight belongs to the smallest |priority|
        least == CHOOSE k \in DOMAIN ps :
                    /\ raw[k] = "pos"
                    /\ \A j \in DOMAIN ps :
                           raw[j] = "pos" => Abs(ps[k]) <= Abs(ps[j])
    IN  [k \in DOMAIN ps |->
            IF "nan" \in kinds THEN Weight("nan", 0, 0)
            ELSE IF "inf" \in kinds
            THEN (IF raw[k] = "inf" THEN Weight("nan", 0, 0)
                  ELSE Weight("zero", 0, 0))
            ELSE IF "pos" \in kinds
            THEN (IF raw[k] = "pos"
                  THEN Weight("pow", Abs(ps[least]), Abs(ps[k]))
                  ELSE Weight("zero", 0, 0))
            ELSE Weight("nan", 0, 0)]

\* What PrioritizedReplayMemory.get makes of the triples the tree returned:
\* unpacking the data of a never-written slot (None) raises TypeError.
PRM_result(m, got) ==
    IF \E k \in DOMAIN got : got[k][3] = None
    THEN Raised("get", "TypeError")
    ELSE Returned("get",
            <<[k \in DOMAIN got |-> got[k][3][1]],
              [k \in DOMAIN got |-> got[k][3][2]],
              [k \in DOMAIN got |-> got[k][3][3]],
              [k \in DOMAIN got |-> got[k][3][4]],
              [k \in DOMAIN got |-> got[k][3][5]],
              [k \in DOMAIN got |-> got[k][3][6]],
              [k \in DOMAIN got |-> got[k][1]],
              PRM_weights(ST_size(m.tree), ST_total_p(m.tree),
                          [k \in DOMAIN got |-> got[k][2]])>>)

\* PrioritizedReplayMemory.get: every outcome the random draws allow
PRM_get(m, n_samples) ==
    LET total_p == ST_total_p(m.tree)
        choices == [k \in 1..n_samples |->
                       UNION {ST_get(m.tree, s) :
                                s \in PRM_samples(total_p, n_samples, k - 1)}]
    IN  {PRM_result(m, got) :
            got \in {g \in [1..n_samples -> UNION Range(choices)] :
                        \A k \in 1..n_samples : g[k] \in choices[k]}}

\* PrioritizedReplayMemory.initialized
PRM_initialized(m) == ST_size(m.tree) > m.initial_size

\* PrioritizedReplayMemory.max_priority (1 stands for 1.)
PRM_max_priority(m) == IF PRM_initialized(m) THEN ST_max_p(m.tree) ELSE 1

----------------------------------------------------------------------------
(* The PrioritizedReplayMemory and its SumTree under a training loop *)

\* the payloads of n steps: the tree never reads them
Payloads(from, n) == [i \in 1..n |-> Transition(from + i, <<FALSE, FALSE>>)]

\* the leaves of a tree of capacity n
Leaves(n) == (n - 1)..(2 * n - 2)

\* The index lists given to SumTree.update: one leaf, or one leaf named
\* twice. A list naming two different leaves acts as two calls, one after
\* the other.
UpdateIndices(n) ==
    {<<i>> : i \in Leaves(n)} \cup {<<i, i>> : i \in Leaves(n)}

\* The sample values given to SumTree.get directly: around 0, inside
\* [0, 10) and around total_p.
SampleValues(st) ==
    {-1, 0, 1, 9} \cup (ST_total_p(st) - 1)..(ST_total_p(st) + 1)

\* a tree whose nodes are within the range sums of priorities reach; the
\* failed update of a one-leaf tree leaves it
TreeInRange(st) ==
    \A i \in DOMAIN st.tree : Abs(st.tree[i]) <= 10 * st.max_size

InitTree ==
    /\ fed = 0
    /\ IdleRing /\ IdleSeq
    /\ \E initial_size \in 0..MaxInit, max_size \in 1..TreeMaxCap :
           pm = PRM_init(initial_size, max_size)
    /\ pm_out = NoCall

TreeAdd ==
    \E n \in 0..MaxBatch :
        /\ pm # Idle
        /\ fed + n <= TreeMaxFed
        /\ TreeInRange(pm.tree)
        /\ \E p \in [1..n -> Priorities] :
               LET r == PRM_add(pm, Payloads(fed, n), p)
               IN  /\ pm' = r.m
                   /\ pm_out' = IF r.raised
                                THEN Raised("add", "RecursionError")
                                ELSE Returned("add", None)
        /\ fed' = fed + n
        /\ UNCHANGED <<ringVars, seqVars>>

TreeUpdate ==
    /\ pm # Idle
    /\ \E idx \in UpdateIndices(pm.max_size) :
        /\ TreeInRange(pm.tree)
        /\ \E p \in [1..Len(idx) -> Priorities] :
               LET r == ST_update(pm.tree, idx, p)
               IN  /\ pm' = [pm EXCEPT !.tree = r.st]
                   /\ pm_out' = IF r.raised
                                THEN Raised("update", "RecursionError")
                                ELSE Returned("update", None)
        /\ UNCHANGED <<fed, ringVars, seqVars>>

TreeGet ==
    /\ pm # Idle
    /\ \E s \in SampleValues(pm.tree) :
        /\ \E r \in ST_get(pm.tree, s) : pm_out' = Returned("tree.get", <<s, r>>)
        /\ UNCHANGED <<fed, pm, ringVars, seqVars>>

PrmGet ==
    \E n_samples \in 1..MaxSamples :
        /\ pm # Idle
        /\ pm_out' \in PRM_get(pm, n_samples)
        /\ UNCHANGED <<fed, pm, ringVars, seqVars>>

NextTree == TreeAdd \/ TreeUpdate \/ TreeGet \/ PrmGet

SpecTree == InitTree /\ [][NextTree]_vars

\* every internal node is the sum of its two children
ST_sums(st) ==
    \A i \in 0..(st.max_size - 2) :
        st.tree[i] = st.tree[2 * i + 1] + st.tree[2 * i + 2]

----------------------------------------------------------------------------
(* SequentialReplayMemory *)

\* SequentialReplayMemory.__init__
SQ_init(initial_size, max_size, unroll_steps) ==
    [initial_size |-> initial_size,
     max_size |-> max_size,
     unroll_steps |-> unroll_steps,
     lengths |-> <<>>,
     size |-> 0,
     states |-> <<>>, actions |-> <<>>, rewards |-> <<>>,
     next_states |-> <<>>, absorbing |-> <<>>, last |-> <<>>,
     unfinished_episode |-> <<>>]

\* np.where(column)[0].tolist(): the 0-based positions, in increasing
\* order, of the rows of dataset whose column `col` is true
RECURSIVE NpWhere(_, _, _)
NpWhere(dataset, col, from) ==
    IF from > Len(dataset) THEN <<>>
    ELSE (IF dataset[from][col] THEN <<from - 1>> ELSE <<>>)
             \o NpWhere(dataset, col, from + 1)

\* Python's dataset[start:end] for 0 <= start <= end <= len(dataset)
Slice(dataset, start, end) == SubSeq(dataset, start + 1, end)

\* the column of a transition that [:, -2] selects: absorbing
BoundaryColumn == 5

\* SequentialReplayMemory._split_dataset. An empty dataset makes a
\* one-dimensional array, and [:, -2] raises IndexError on it.
SQ_split_dataset(dataset) ==
    IF dataset = <<>>
    THEN [raised |-> TRUE, episodes |-> <<>>, rest |-> <<>>]
    ELSE LET indices == NpWhere(dataset, BoundaryColumn, 1)
             args == <<0>> \o [k \in 1..Len(indices) |-> indices[k] + 1]
             end == IF Len(args) = 1 THEN 0 ELSE args[Len(args)]
         IN  [raised |-> FALSE,
              episodes |-> [k \in 1..(Len(args) - 1) |->
                               Slice(dataset, args[k], args[k + 1])],
              rest |-> Slice(dataset, end, Len(dataset))]

\* a plausible slip of that condition: an episode of max_size steps passes
SQ_storable_inclusive(m, episode) ==
    m.unroll_steps <= Len(episode) /\ Len(episode) <= m.max_size

\* the condition under which add stores an episode
SQ_storable(m, episode) ==
    m.unroll_steps <= Len(episode) /\ Len(episode) < m.max_size

\* a plausible slip of the while loop: pop() removes the newest episode
RECURSIVE SQ_evict_newest(_)
SQ_evict_newest(m) ==
    LET keep(q) == SubSeq(q, 1, Len(q) - 1)
    IN  IF m.size > m.max_size /\ m.states # <<>>
        THEN SQ_evict_newest(
                 [m EXCEPT !.size = @ - Len(m.states[Len(m.states)]),
                           !.states = keep(@), !.actions = keep(@),
                           !.rewards = keep(@), !.next_states = keep(@),
                           !.absorbing = keep(@), !.last = keep(@),
                           !.lengths = keep(@)])
        ELSE m

\* the while loop of add: remove the oldest episodes while over capacity
\* (popping from an empty list would raise; the loop never gets there)
RECURSIVE SQ_evict(_)
SQ_evict(m) ==
    IF m.size > m.max_size /\ m.states # <<>>
    THEN SQ_evict([m EXCEPT !.size = @ - Len(m.states[1]),
                            !.states = Tail(@), !.actions = Tail(@),
                            !.rewards = Tail(@), !.next_states = Tail(@),
                            !.absorbing = Tail(@), !.last = Tail(@),
                            !.lengths = Tail(@)])
    ELSE m

\* column c of an episode
Column(episode, c) == [i \in 1..Len(episode) |-> episode[i][c]]

\* a plausible slip of that body: the eviction loop is missing
SQ_store_noEvict(m, episode) ==
    [m EXCEPT !.states = Append(@, Column(episode, 1)),
              !.actions = Append(@, Column(episode, 2)),
              !.rewards = Append(@, Column(episode, 3)),
              !.next_states = Append(@, Column(episode, 4)),
              !.absorbing = Append(@, Column(episode, 5)),
              !.last = Append(@, Column(episode, 6)),
              !.size = @ + Len(episode),
              !.lengths = Append(@, Len(episode))]

\* the body of the loop of add for an episode that is stored
SQ_store(m, episode) ==
    SQ_evict([m EXCEPT !.states = Append(@, Column(episode, 1)),
                       !.actions = Append(@, Column(episode, 2)),
                       !.rewards = Append(@, Column(episode, 3)),
                       !.next_states = Append(@, Column(episode, 4)),
                       !.absorbing = Append(@, Column(episode, 5)),
                       !.last = Append(@, Column(episode, 6)),
                       !.size = @ + Len(episode),
                       !.lengths = Append(@, Len(episode))])

\* the loop of add over the complete episodes: the object it leaves, the
\* count it returns, and (history) the episodes it stored, in order
RECURSIVE SQ_add_episodes(_, _)
SQ_add_episodes(m, episodes) ==
    IF episodes = <<>>
    THEN [m |-> m, added |-> 0, stored |-> <<>>]
    ELSE LET episode == Head(episodes)
             keep == SQ_storable(m, episode)
             r == SQ_add_episodes(IF keep THEN SQ_store(m, episode) ELSE m,
                                  Tail(episodes))
         IN  IF keep
             THEN [r EXCEPT !.added = @ + 1, !.stored = <<episode>> \o @]
             ELSE r

\* SequentialReplayMemory.add
SQ_add(m, dataset) ==
    LET input == m.unfinished_episode \o dataset
        split == SQ_split_dataset(input)
        r == SQ_add_episodes([m EXCEPT !.unfinished_episode = split.rest],
                             split.episodes)
    IN  IF split.raised
        THEN [m |-> m, raised |-> TRUE, added |-> 0, stored |-> <<>>,
              input |-> input, split |-> split]
        ELSE [m |-> r.m, raised |-> FALSE, added |-> r.added,
              stored |-> r.stored, input |-> input, split |-> split]

\* SequentialReplayMemory.reset
SQ_reset(m) ==
    [m EXCEPT !.size = 0,
              !.states = <<>>, !.actions = <<>>, !.rewards = <<>>,
              !.next_states = <<>>, !.absorbing = <<>>, !.last = <<>>,
              !.lengths = <<>>]

\* SequentialReplayMemory.initialized
SQ_initialized(m) == m.size > m.initial_size

\* SequentialReplayMemory.size
SQ_size(m) == m.size

\* a plausible slip of that batch: the start indices are never advanced
SQ_batch_noAdvance(m, eps, idx) ==
    LET arr(field) ==
            [t \in 1..m.unroll_steps |->
                [b \in DOMAIN eps |->
                    field[eps[b] + 1][idx[eps[b] + 1] + 1]]]
    IN  <<arr(m.states), arr(m.actions), arr(m.rewards),
          arr(m.next_states), arr(m.absorbing), arr(m.last)>>

\* The batch of get for the drawn episodes eps (one per batch entry,
\* 0-based) and the drawn start indices idx (one per stored episode):
\* six arrays indexed [step][batch entry].
SQ_batch(m, eps, idx) ==
    LET arr(field) ==
            [t \in 1..m.unroll_steps |->
                [b \in DOMAIN eps |->
                    field[eps[b] + 1][idx[eps[b] + 1] + t]]]
    IN  <<arr(m.states), arr(m.actions), arr(m.rewards),
          arr(m.next_states), arr(m.absorbing), arr(m.last)>>

\* np.random.randint(0, lengths - unroll_steps + 1): the arrays of start
\* indices it can draw, one index per stored episode
RECURSIVE SQ_starts(_, _)
SQ_starts(lengths, unroll_steps) ==
    IF lengths = <<>> THEN {<<>>}
    ELSE {<<a>> \o rest :
            a \in 0..(Head(lengths) - unroll_steps),
            rest \in SQ_starts(Tail(lengths), unroll_steps)}

\* a plausible slip of the assertion: the count must be below initial_size
SQ_assert_strict(m, n) == n < m.initial_size

\* the assertion get and get_batch_first open with
SQ_assert(m, n) == n <= m.initial_size

\* SequentialReplayMemory.get: every outcome the random draws allow.
\* np.random.randint raises ValueError when an upper bound is <= 0.
SQ_get(m, batch_size) ==
    IF ~SQ_assert(m, batch_size)
    THEN {Raised("get", "AssertionError")}
    ELSE IF Len(m.states) <= 0
    THEN {Raised("get", "ValueError")}
    ELSE IF \E e \in 1..Len(m.lengths) : m.lengths[e] - m.unroll_steps + 1 <= 0
    THEN {Raised("get", "ValueError")}
    ELSE {Returned("get", SQ_batch(m, eps, idx)) :
            eps \in [1..batch_size -> 0..(Len(m.states) - 1)],
            idx \in SQ_starts(m.lengths, m.unroll_steps)}

\* The batch of get_batch_first for the drawn (episode, start) pairs: six
\* arrays indexed [batch entry][step].
SQ_batch_first(m, draws) ==
    LET arr(field) ==
            [b \in DOMAIN draws |->
                [t \in 1..m.unroll_steps |->
                    field[draws[b][1] + 1][draws[b][2] + t]]]
    IN  <<arr(m.states), arr(m.actions), arr(m.rewards),
          arr(m.next_states), arr(m.absorbing), arr(m.last)>>

\* SequentialReplayMemory.get_batch_first: every outcome the draws allow
SQ_get_batch_first(m, n_samples) ==
    IF ~SQ_assert(m, n_samples)
    THEN {Raised("get_batch_first", "AssertionError")}
    ELSE IF Len(m.states) <= 0
    THEN {Raised("get_batch_first", "ValueError")}
    ELSE LET pairs == {<<ep, start>> \in
                          (0..(Len(m.states) - 1)) \X (0..m.max_size) :
                              start <= Len(m.last[ep + 1]) - m.unroll_steps}
             short == {ep \in 0..(Len(m.states) - 1) :
                          Len(m.last[ep + 1]) - m.unroll_steps + 1 <= 0}
         IN  {Returned("get_batch_first", SQ_batch_first(m, draws)) :
                 draws \in [1..n_samples -> pairs]}
             \cup (IF short # {}
                   THEN {Raised("get_batch_first", "ValueError")} ELSE {})

----------------------------------------------------------------------------
(* The SequentialReplayMemory under a training loop *)

\* the (absorbing, last) flags of the steps fed to the sequential memory
SeqFlagPairs == {<<FALSE, FALSE>>, <<TRUE, TRUE>>}

SeqDatasets(from, n) ==
    {[i \in 1..n |-> Transition(from + i, fs[i])] : fs \in [1..n -> SeqFlagPairs]}

InitSeq ==
    /\ fed = 0
    /\ IdleRing /\ IdleTree
    /\ \E initial_size \in 0..SeqMaxInit, max_size \in 1..SeqMaxCap,
          unroll_steps \in 1..MaxUnroll :
           sq = SQ_init(initial_size, max_size, unroll_steps)
    /\ sq_accepted = <<>>
    /\ sq_call = NoSplit
    /\ sq_out = NoCall

SeqAdd ==
    \E n \in 0..SeqMaxFed :
        /\ sq # Idle
        /\ fed + n <= SeqMaxFed
        /\ \E dataset \in SeqDatasets(fed, n) :
               LET r == SQ_add(sq, dataset)
               IN  /\ sq' = r.m
                   /\ sq_accepted' = sq_accepted \o r.stored
                   /\ sq_call' = [input |-> r.input,
                                  episodes |-> r.split.episodes,
                                  rest |-> r.split.rest,
                                  stored |-> r.stored]
                   /\ sq_out' = IF r.raised THEN Raised("add", "IndexError")
                                ELSE Returned("add", r.added)
        /\ fed' = fed + n
        /\ UNCHANGED <<ringVars, treeVars>>

SeqGet ==
    \E batch_size \in 1..MaxSamples :
        /\ sq # Idle
        /\ sq_out' \in SQ_get(sq, batch_size)
        /\ UNCHANGED <<fed, sq, sq_accepted, sq_call, ringVars, treeVars>>

SeqGetBatchFirst ==
    \E n_samples \in 1..MaxSamples :
        /\ sq # Idle
        /\ sq_out' \in SQ_get_batch_first(sq, n_samples)
        /\ UNCHANGED <<fed, sq, sq_accepted, sq_call, ringVars, treeVars>>

SeqReset ==
    /\ sq # Idle
    /\ sq' = SQ_reset(sq)
    /\ sq_accepted' = <<>>
    /\ sq_out' = Returned("reset", None)
    /\ UNCHANGED <<fed, sq_call, ringVars, treeVars>>

NextSeq == SeqAdd \/ SeqGet \/ SeqGetBatchFirst \/ SeqReset

SpecSeq == InitSeq /\ [][NextSeq]_vars

----------------------------------------------------------------------------
(* The three memories, one of them per run *)

InitAll == InitRing \/ InitTree \/ InitSeq

NextAll == NextRing \/ NextTree \/ NextSeq

SpecAll == InitAll /\ [][NextAll]_vars

----------------------------------------------------------------------------
(* C2 *)

\* the sum of the values of tree at the indices from..to
RECURSIVE SumRange(_, _, _)
SumRange(tree, from, to) ==
    IF from > to THEN 0 ELSE tree[from] + SumRange(tree, from + 1, to)

\* the sum of the leaves of a SumTree
LeafSum(st) == SumRange(st.tree, st.max_size - 1, 2 * st.max_size - 2)

\* C2: sum invariant of SumTree. After any sequence of add and update
\* calls every internal node equals the sum of its two children, and
\* total_p, the root, equals the sum of the leaves.
C2_SumInvariant ==
    /\ ST_sums(pm.tree)
    /\ ST_total_p(pm.tree) = LeafSum(pm.tree)

\* C2 witness: an update returned on a full tree of several leaves whose
\* oldest slot was overwritten and whose root is not 0
C2_Witness ==
    /\ pm_out = Returned("update", None)
    /\ pm.max_size >= 2
    /\ pm.tree.full
    /\ fed > pm.max_size
    /\ ST_total_p(pm.tree) # 0

----------------------------------------------------------------------------
(* C3 *)

RECURSIVE SeqSum(_)
SeqSum(q) == IF q = <<>> THEN 0 ELSE Head(q) + SeqSum(Tail(q))

\* the k-th stored episode, put together from the six lists
SQ_episode(m, k) ==
    [i \in 1..Len(m.states[k]) |->
        <<m.states[k][i], m.actions[k][i], m.rewards[k][i],
          m.next_states[k][i], m.absorbing[k][i], m.last[k][i]>>]

\* C3: capacity eviction of SequentialReplayMemory. _size never exceeds
\* max_size; _size is the sum of _lengths; the six lists and _lengths have
\* one entry per stored episode, _lengths[k] being the length of episode k in
\* each list; and the stored episodes are the most recent of the episodes
\* add stored, whole and in insertion order.
C3_CapacityEviction ==
    LET n == Len(sq.states)
        acc == Len(sq_accepted)
    IN  /\ sq.size <= sq.max_size
        /\ sq.size = SeqSum(sq.lengths)
        /\ Len(sq.lengths) = n /\ Len(sq.actions) = n /\ Len(sq.rewards) = n
        /\ Len(sq.next_states) = n /\ Len(sq.absorbing) = n /\ Len(sq.last) = n
        /\ \A k \in 1..n :
               /\ Len(sq.states[k]) = sq.lengths[k]
               /\ Len(sq.actions[k]) = sq.lengths[k]
               /\ Len(sq.rewards[k]) = sq.lengths[k]
               /\ Len(sq.next_states[k]) = sq.lengths[k]
               /\ Len(sq.absorbing[k]) = sq.lengths[k]
               /\ Len(sq.last[k]) = sq.lengths[k]
        /\ n <= acc
        /\ \A k \in 1..n : SQ_episode(sq, k) = sq_accepted[acc - n + k]

\* C3 witness: an add evicted the oldest episode and kept two
C3_Witness ==
    /\ sq_out.op = "add" /\ sq_out.kind = "return"
    /\ Len(sq.states) = 2
    /\ Len(sq_accepted) > 2
    /\ sq.size = sq.max_size

----------------------------------------------------------------------------
(* C4 *)

RECURSIVE Flatten(_)
Flatten(qs) == IF qs = <<>> THEN <<>> ELSE Head(qs) \o Flatten(Tail(qs))

\* the split recorded for a call: the episodes and the rest concatenate to
\* the input; every episode ends at a flagged transition and holds no other
\* one; the rest holds none
SplitOK(call) ==
    /\ Flatten(call.episodes) \o call.rest = call.input
    /\ \A k \in 1..Len(call.episodes) :
           LET e == call.episodes[k]
           IN  /\ e # <<>>
               /\ e[Len(e)][5]
               /\ \A i \in 1..(Len(e) - 1) : ~e[i][5]
    /\ \A i \in 1..Len(call.rest) : ~call.rest[i][5]

\* the input of the last add is the carried-over steps followed by the new
\* ones: the most recent steps of the feed, in order
InputIsFeedTail(call) ==
    \A i \in 1..Len(call.input) :
        call.input[i][1] = 4 * (fed - Len(call.input) + i)

\* the 7-step stream with boundary flags at positions 2 and 5
Stream7 ==
    [i \in 1..7 |-> Transition(i, IF i \in {3, 6} THEN <<TRUE, TRUE>>
                                  ELSE <<FALSE, FALSE>>)]

\* C4 (as claimed): every add call splits previous unfinished_episode +
\* stream into complete episodes, each ending at its only flagged
\* transition, and an unflagged rest that becomes unfinished_episode, which
\* concatenate back to the input.
C4_SplitEveryCall ==
    sq_out.op = "add" =>
        /\ sq_out.kind = "return"
        /\ SplitOK(sq_call)
        /\ InputIsFeedTail(sq_call)
        /\ sq.unfinished_episode = sq_call.rest

\* C4 (what holds): the same for every add call that returns, that is
\* whenever previous unfinished_episode + stream is not empty; and the
\* 7-step stream splits into episodes of 3 and 3 steps and 1 step left.
C4_SplitWhenReturned ==
    /\ (sq_out.op = "add" /\ sq_out.kind = "return") =>
           /\ SplitOK(sq_call)
           /\ InputIsFeedTail(sq_call)
           /\ sq.unfinished_episode = sq_call.rest
    /\ (sq_out.op = "add" /\ sq_out.kind = "error") => sq_call.input = <<>>
    /\ LET r == SQ_split_dataset(Stream7)
       IN  /\ ~r.raised
           /\ r.episodes = <<SubSeq(Stream7, 1, 3), SubSeq(Stream7, 4, 6)>>
           /\ r.rest = SubSeq(Stream7, 7, 7)

\* two steps are carried over, and an add of one flagged step makes one
\* episode of the three
C4_AssembledAcrossCalls ==
    /\ sq_out.op = "add" /\ sq_out.kind = "return"
    /\ Len(sq.unfinished_episode) = 2
    /\ LET t == Transition(fed + 1, <<TRUE, TRUE>>)
           r == SQ_add(sq, <<t>>)
       IN  /\ ~r.raised
           /\ r.split.episodes = <<sq.unfinished_episode \o <<t>>>>
           /\ r.split.rest = <<>>
           /\ r.m.unfinished_episode = <<>>

----------------------------------------------------------------------------
(* C5 *)

\* unroll_steps <= length < max_size
LengthInRange(m, n) == m.unroll_steps <= n /\ n < m.max_size

\* every stored episode has a length in range, and the last add stored
\* exactly the complete episodes whose length is in range
C5_State ==
    /\ \A k \in 1..Len(sq.lengths) :
           /\ LengthInRange(sq, sq.lengths[k])
           /\ Len(sq.states[k]) = sq.lengths[k]
    /\ sq_call.stored
           = SelectSeq(sq_call.episodes, LAMBDA e : LengthInRange(sq, Len(e)))

\* an add all of whose complete episodes are out of range leaves the stored
\* episodes, _lengths and _size as they were
C5_Step ==
    (/\ sq_out'.op = "add"
     /\ \A k \in 1..Len(sq_call'.episodes) :
            ~LengthInRange(sq, Len(sq_call'.episodes[k])))
    => /\ sq'.states = sq.states /\ sq'.actions = sq.actions
       /\ sq'.rewards = sq.rewards /\ sq'.next_states = sq.next_states
       /\ sq'.absorbing = sq.absorbing /\ sq'.last = sq.last
       /\ sq'.lengths = sq.lengths /\ sq'.size = sq.size

\* C5: stored-episode length invariant of SequentialReplayMemory. Every
\* stored episode has unroll_steps <= length < max_size; a complete episode
\* shorter than unroll_steps or of at least max_size steps (max_size itself
\* included) is dropped, and dropping changes neither the stored episodes
\* nor _lengths nor _size.
C5_StoredLengths == []C5_State /\ [][C5_Step]_vars

\* C5 witness: the buffer holds an episode, and the last add dropped an
\* episode of exactly max_size steps without touching it
C5_Witness ==
    /\ sq_out.op = "add" /\ sq_out.kind = "return"
    /\ Len(sq.states) >= 1
    /\ sq_call.stored = <<>>
    /\ \E k \in 1..Len(sq_call.episodes) :
           Len(sq_call.episodes[k]) = sq.max_size

----------------------------------------------------------------------------
(* C6 *)

\* the leaves are {10, 0, 0, ...}: the first data slot holds a payload of
\* priority 10 and every other leaf is 0
OneNonzeroLeaf(st) ==
    /\ st.max_size >= 2
    /\ st.data[0] # None
    /\ st.tree[st.max_size - 1] = 10
    /\ \A i \in Leaves(st.max_size) \ {st.max_size - 1} : st.tree[i] = 0

\* what get must return in such a tree
TheNonzeroLeaf(st) == <<st.max_size - 1, 10, st.data[0]>>

\* C6 (as claimed): in a tree with leaves {10, 0, 0, ...}, get(s) returns the
\* nonzero leaf for every s in [0, 10), s = 0 included, whatever the
\* tie-break chooses.
C6_SamplingOneLeaf ==
    OneNonzeroLeaf(pm.tree) =>
        \A s \in 0..9 : ST_get(pm.tree, s) = {TheNonzeroLeaf(pm.tree)}

\* C6 (what holds): get(s) returns the nonzero leaf for every s with
\* 0 < s <= 10; for s = 0 it does so when max_size is 2.
C6_SamplingInterior ==
    OneNonzeroLeaf(pm.tree) =>
        /\ \A s \in 1..10 : ST_get(pm.tree, s) = {TheNonzeroLeaf(pm.tree)}
        /\ pm.max_size = 2 => ST_get(pm.tree, 0) = {TheNonzeroLeaf(pm.tree)}

----------------------------------------------------------------------------
(* C7 *)

\* a triple get returns names a leaf, with the priority and the payload of
\* that leaf's slot
LeafTriple(st, r) ==
    /\ r[1] \in Leaves(st.max_size)
    /\ r[2] = st.tree[r[1]]
    /\ r[3] = st.data[r[1] - st.max_size + 1]

\* C7: SumTree.get(s) ends at a leaf. For every max_size >= 1, every tree
\* content and every s, the descent yields an index in
\* [max_size-1, 2*max_size-2], and the triple returned is
\* (idx, _tree[idx], _data[idx - max_size + 1]).
C7_GetEndsAtLeaf ==
    /\ \A s \in SampleValues(pm.tree) :
           /\ ST_get(pm.tree, s) # {}
           /\ \A r \in ST_get(pm.tree, s) : LeafTriple(pm.tree, r)
    /\ pm_out.op = "tree.get" =>
           /\ pm_out.kind = "return"
           /\ LeafTriple(pm.tree, pm_out.val[2])

\* C7 witness: a get on a tree of three leaves, one of them written, went
\* through a tie of two children and returned a leaf
C7_Witness ==
    /\ pm_out.op = "tree.get" /\ pm_out.kind = "return"
    /\ pm.max_size = 3
    /\ ST_size(pm.tree) >= 1
    /\ pm.tree.tree[1] = pm.tree.tree[2]
    /\ Cardinality(ST_get(pm.tree, pm_out.val[1])) >= 2

----------------------------------------------------------------------------
(* C8 *)

\* C8 (as claimed): SumTree.get(s) with s < 0 or s >= total_p ends in an
\* error; it never returns a leaf.
C8_OutOfRangeFails ==
    (/\ pm_out.op = "tree.get"
     /\ \/ pm_out.val[1] < 0
        \/ pm_out.val[1] >= ST_total_p(pm.tree))
    => pm_out.kind = "error"

\* C8 (what the code does): such a call returns a leaf like any other
C8_OutOfRangeReturnsLeaf ==
    \A s \in SampleValues(pm.tree) :
        (s < 0 \/ s >= ST_total_p(pm.tree)) =>
            /\ ST_get(pm.tree, s) # {}
            /\ \A r \in ST_get(pm.tree, s) : r[1] \in Leaves(pm.max_size)

----------------------------------------------------------------------------
(* C9 *)

\* every outcome of a call is an error, and there is one
AllErrors(outcomes) ==
    /\ outcomes # {}
    /\ \A o \in outcomes : o.kind = "error"

\* a PrioritizedReplayMemory that holds no transition: size 0 and no data
\* slot written
PRM_empty(m) ==
    /\ ST_size(m.tree) = 0
    /\ \A i \in DOMAIN m.tree.data : m.tree.data[i] = None

\* in every state, a get with n >= 1 on a buffer holding no transition can
\* only end in an error
C9_State ==
    \A n \in 1..MaxSamples :
        /\ (rm # Idle /\ RM_size(rm) = 0) => AllErrors(RM_get(rm, n))
        /\ (pm # Idle /\ PRM_empty(pm)) => AllErrors(PRM_get(pm, n))
        /\ (sq # Idle /\ SQ_size(sq) = 0) =>
               /\ AllErrors(SQ_get(sq, n))
               /\ AllErrors(SQ_get_batch_first(sq, n))

\* a get step leaves the buffer as it was, and on a buffer holding no
\* transition its outcome is an error
C9_Step ==
    /\ rm_out'.op = "get" =>
           /\ rm' = rm
           /\ RM_size(rm) = 0 => rm_out'.kind = "error"
    /\ pm_out'.op = "get" =>
           /\ pm' = pm
           /\ PRM_empty(pm) => pm_out'.kind = "error"
    /\ sq_out'.op \in {"get", "get_batch_first"} =>
           /\ sq' = sq
           /\ SQ_size(sq) = 0 => sq_out'.kind = "error"

\* C9: sampling from an empty buffer fails fast. For ReplayMemory.get,
\* PrioritizedReplayMemory.get, SequentialReplayMemory.get and
\* SequentialReplayMemory.get_batch_first, a call with n >= 1 on a buffer
\* that holds no transitions (after construction or reset) ends in an error,
\* returns no batch and leaves the buffer unchanged.
C9_EmptyGetFails == []C9_State /\ [][C9_Step]_vars

\* C9 witness: a get failed on a buffer emptied by reset after transitions
\* had been added to it
C9_Witness ==
    \/ /\ rm # Idle /\ rm_out = Raised("get", "ValueError")
       /\ RM_size(rm) = 0 /\ fed >= 1
    \/ /\ sq # Idle /\ sq_out.op \in {"get", "get_batch_first"}
       /\ sq_out.kind = "error"
       /\ SQ_size(sq) = 0 /\ fed >= 2 /\ sq.unfinished_episode = <<>>

----------------------------------------------------------------------------
(* C10 *)

\* the leaves that have been written: the first size slots when the tree is
\* not full, all of them when it is
WrittenLeaves(st) ==
    {st.max_size - 1 + k : k \in 0..(ST_size(st) - 1)}

\* C10 (as claimed): in every state with size >= 1, max_p is the maximum
\* priority among the written leaves; the 0 of a never-written leaf is never
\* reported.
C10_MaxOverWritten ==
    ST_size(pm.tree) >= 1 =>
        ST_max_p(pm.tree)
            = SetMax({pm.tree.tree[i] : i \in WrittenLeaves(pm.tree)})

\* C10 (what holds): max_p is the maximum over all leaf slots, written or
\* not, so it is the maximum over the written ones once the tree is full.
C10_MaxOverAllLeaves ==
    /\ ST_max_p(pm.tree)
           = SetMax({pm.tree.tree[i] : i \in Leaves(pm.max_size)})
    /\ pm.tree.full =>
           ST_max_p(pm.tree)
               = SetMax({pm.tree.tree[i] : i \in WrittenLeaves(pm.tree)})

----------------------------------------------------------------------------
(* C11 *)

\* C11 (as claimed): max_priority is 1.0 while the buffer is not initialized
\* (tree size <= initial_size) and the maximum priority among the populated
\* leaves once it is, after any sequence of add and update calls.
C11_MaxPriority ==
    PRM_max_priority(pm)
        = IF ST_size(pm.tree) > pm.initial_size
          THEN SetMax({pm.tree.tree[i] : i \in WrittenLeaves(pm.tree)})
          ELSE 1

\* C11 (what holds): max_priority is 1.0 while the buffer is not
\* initialized, and the maximum over all leaf slots, written or not, once it
\* is.
C11_Gate ==
    PRM_max_priority(pm)
        = IF ST_size(pm.tree) > pm.initial_size
          THEN SetMax({pm.tree.tree[i] : i \in Leaves(pm.max_size)})
          ELSE 1

----------------------------------------------------------------------------
(* C12 *)

\* the number of transitions a sequential memory holds
SQ_held(m) == SeqSum([k \in 1..Len(m.states) |-> Len(m.states[k])])

\* initialized is size > initial_size, for each of the three memories
C12_State ==
    /\ rm # Idle =>
           /\ RM_initialized(rm)
                  = (Min(Len(rm_hist), rm.max_size) > rm.initial_size)
           /\ RM_size(rm) = rm.initial_size => ~RM_initialized(rm)
    /\ pm # Idle =>
           /\ PRM_initialized(pm) = (ST_size(pm.tree) > pm.initial_size)
           /\ ST_size(pm.tree) = pm.initial_size => ~PRM_initialized(pm)
    /\ sq # Idle =>
           /\ SQ_initialized(sq) = (SQ_held(sq) > sq.initial_size)
           /\ SQ_size(sq) = sq.initial_size => ~SQ_initialized(sq)

\* an add to an initialized ring or prioritized memory leaves it initialized
C12_Step ==
    /\ (rm_out'.op = "add" /\ RM_initialized(rm)) =>
           /\ RM_initialized(rm')
           /\ RM_size(rm') >= RM_size(rm)
    /\ (pm_out'.op = "add" /\ PRM_initialized(pm)) =>
           /\ PRM_initialized(pm')
           /\ ST_size(pm'.tree) >= ST_size(pm.tree)

\* C12: readiness gate. For the three memories initialized is true exactly
\* when size > initial_size (not at size = initial_size); for the ring and
\* the prioritized memory, once true it stays true under further add calls.
C12_ReadinessGate == []C12_State /\ [][C12_Step]_vars

\* C12 witness: after an add the ring holds exactly initial_size >= 1
\* transitions and is not initialized
C12_Witness ==
    /\ rm # Idle
    /\ rm_out.op = "add"
    /\ rm.initial_size >= 1
    /\ RM_size(rm) = rm.initial_size
    /\ ~RM_initialized(rm)

----------------------------------------------------------------------------
(* C13 *)

\* C13 (as claimed): after reset the ring has cursor 0, full false, every
\* slot empty and size 0; the sequential memory has no stored episode, empty
\* _lengths, size 0 and no carried-over unfinished_episode: it is the
\* freshly constructed buffer.
C13_ResetClears ==
    /\ (rm # Idle /\ rm_out.op = "reset") =>
           rm = RM_init(rm.initial_size, rm.max_size)
    /\ (sq # Idle /\ sq_out.op = "reset") =>
           sq = SQ_init(sq.initial_size, sq.max_size, sq.unroll_steps)

\* C13 (what holds): reset empties the ring entirely, and empties the lists,
\* _lengths and _size of the sequential memory, whose unfinished_episode it
\* leaves as it was.
C13_ResetKeepsUnfinished ==
    /\ (rm # Idle /\ rm_out.op = "reset") =>
           /\ rm = RM_init(rm.initial_size, rm.max_size)
           /\ RM_size(rm) = 0
           /\ \A i \in 0..(rm.max_size - 1) : RM_slot(rm, i) = None
    /\ (sq # Idle /\ sq_out.op = "reset") =>
           /\ [sq EXCEPT !.unfinished_episode = <<>>]
                  = SQ_init(sq.initial_size, sq.max_size, sq.unroll_steps)
           /\ sq.unfinished_episode = sq_call.rest

\* after a reset with a step carried over, an add of one flagged step stores
\* an episode of two steps, where a fresh buffer would store one of one step
C13_CarriedOverReset ==
    /\ sq # Idle /\ sq_out.op = "reset"
    /\ Len(sq.unfinished_episode) = 1
    /\ sq.unroll_steps = 2 /\ sq.max_size = 3
    /\ LET t == Transition(fed + 1, <<TRUE, TRUE>>)
       IN  /\ SQ_add(sq, <<t>>).added = 1
           /\ SQ_add(SQ_init(sq.initial_size, sq.max_size, sq.unroll_steps),
                     <<t>>).added = 0

----------------------------------------------------------------------------
(* C14 *)

\* entry b of a time-major batch of n entries is a window of unroll_steps
\* consecutive transitions of one stored episode, starting at an offset in
\* [0, length - unroll_steps]
WindowOfEpisode(m, val, b) ==
    \E k \in 1..Len(m.states) :
        \E off \in 0..(m.lengths[k] - m.unroll_steps) :
            \A t \in 1..m.unroll_steps :
                /\ off + t <= Len(m.states[k])
                /\ \A f \in 1..6 : val[f][t][b] = SQ_episode(m, k)[off + t][f]

\* a batch of get: six arrays of unroll_steps rows of n entries, each entry
\* a window of one episode
TimeMajorBatch(m, val, n) ==
    /\ Len(val) = 6
    /\ \A f \in 1..6 :
           /\ Len(val[f]) = m.unroll_steps
           /\ \A t \in 1..m.unroll_steps : Len(val[f][t]) = n
    /\ \A b \in 1..n : WindowOfEpisode(m, val, b)

\* C14: windowed sampling stays inside one episode. For a non-empty
\* SequentialReplayMemory and batch_size <= initial_size, every sequence
\* get returns is unroll_steps consecutive transitions of one stored
\* episode, starting at an offset in [0, length - unroll_steps]; no index is
\* out of bounds, and the output is time-major.
C14_WindowInsideEpisode ==
    /\ SQ_size(sq) > 0 =>
           \A n \in 1..sq.initial_size :
               /\ SQ_get(sq, n) # {}
               /\ \A o \in SQ_get(sq, n) :
                      /\ o.kind = "return"
                      /\ TimeMajorBatch(sq, o.val, n)
    /\ (sq_out.op = "get" /\ sq_out.kind = "return") =>
           TimeMajorBatch(sq, sq_out.val, Len(sq_out.val[1][1]))

\* C14 witness: get returned a window of two steps from a buffer that holds
\* an episode and allows batches of two
C14_Witness ==
    /\ sq_out.op = "get" /\ sq_out.kind = "return"
    /\ sq.unroll_steps = 2
    /\ Len(sq.states) = 1
    /\ sq.initial_size = 2

----------------------------------------------------------------------------
(* C15 *)

\* a time-major batch [unroll_steps][n] turned batch-major [n][unroll_steps]
Transposed(m, val, n) ==
    [f \in 1..6 |->
        [b \in 1..n |-> [t \in 1..m.unroll_steps |-> val[f][t][b]]]]

\* the batches get(n) can return, transposed
GetBatches(m, n) ==
    {Transposed(m, o.val, n) : o \in {x \in SQ_get(m, n) : x.kind = "return"}}

\* the batches get_batch_first(n) can return
BatchFirstBatches(m, n) ==
    {o.val : o \in {x \in SQ_get_batch_first(m, n) : x.kind = "return"}}

\* C15 (as claimed): for every buffer state and every n, the batches get(n)
\* can return, transposed, are the batches get_batch_first(n) can return;
\* each batch entry has its own episode and its own start offset, also when
\* two entries draw the same episode.
C15_SamePolicy ==
    \A n \in 1..SeqMaxInit : GetBatches(sq, n) = BatchFirstBatches(sq, n)

\* C15 (what holds): every batch of get, transposed, is a batch of
\* get_batch_first, and the two sets are equal for n = 1; in a batch of
\* get, two entries that drew the same episode have the same window.
C15_GetIsNarrower ==
    /\ \A n \in 1..SeqMaxInit :
           GetBatches(sq, n) \subseteq BatchFirstBatches(sq, n)
    /\ GetBatches(sq, 1) = BatchFirstBatches(sq, 1)
    /\ \A n \in 1..SeqMaxInit : \A o \in SQ_get(sq, n) :
           o.kind = "return" =>
               \A b1, b2 \in 1..n :
                   o.val[1][1][b1] \div 4 # o.val[1][1][b2] \div 4 =>
                       \A k \in 1..Len(sq.states) :
                           ~(/\ o.val[1][1][b1] \in Range(sq.states[k])
                             /\ o.val[1][1][b2] \in Range(sq.states[k]))

----------------------------------------------------------------------------
(* C16 *)

\* the complete episodes of a call whose length is in range
InRangeEpisodes(m, call) ==
    {k \in 1..Len(call.episodes) : LengthInRange(m, Len(call.episodes[k]))}

\* C16 (as claimed): every add call returns the number of complete episodes
\* of previous unfinished_episode + stream with
\* unroll_steps <= length < max_size; dropped episodes and the unfinished
\* tail are not counted, and the stored episodes are those before, plus the
\* ones counted, minus the evicted.
C16_ReturnCount ==
    sq_out.op = "add" =>
        /\ sq_out.kind = "return"
        /\ sq_out.val = Cardinality(InRangeEpisodes(sq, sq_call))
        /\ sq_out.val = Len(sq_call.stored)
        /\ Len(sq.states) <= Len(sq_accepted)

\* C16 (what holds): the same for every add call that returns; a call
\* fails exactly when previous unfinished_episode + stream is empty.
C16_ReturnCountWhenReturned ==
    /\ (sq_out.op = "add" /\ sq_out.kind = "return") =>
           /\ sq_call.input # <<>>
           /\ sq_out.val = Cardinality(InRangeEpisodes(sq, sq_call))
           /\ sq_out.val = Len(sq_call.stored)
           /\ Len(sq.states) <= Len(sq_accepted)
    /\ (sq_out.op = "add" /\ sq_out.kind = "error") =>
           /\ sq_call.input = <<>>
           /\ sq_out.val = <<"IndexError">>

----------------------------------------------------------------------------
(* Snapshot and restore. Attributes carry the model's field names, which  *)
(* the source writes with a leading underscore.                           *)

\* an attribute holding a value, and one holding None
Value(v) == <<"value", v>>
Null == <<"null">>

\* the ways _add_save_attr registers an attribute: a trailing '!' marks it
\* as saved only in a full save
Always == [method |-> "pickle", optional |-> FALSE]
Primitive == [method |-> "primitive", optional |-> FALSE]
Optional == [method |-> "pickle", optional |-> TRUE]

\* Serializable.save followed by Serializable.load: the loaded object has
\* the registered attributes and no other; one that was not saved (an
\* optional one outside a full save, or one the object never had) is None
Serializable_load(save_attributes, obj, full_save) ==
    [a \in DOMAIN save_attributes |->
        IF a \in DOMAIN obj /\ (save_attributes[a].optional => full_save)
        THEN Value(obj[a])
        ELSE Null]

\* an object all of whose attributes hold their value
AsLoaded(obj) == [a \in DOMAIN obj |-> Value(obj[a])]

\* the attributes `reads` exist on the loaded object and are not None
Usable(loaded, reads) ==
    \A a \in reads : a \in DOMAIN loaded /\ loaded[a] # Null

\* the attributes ReplayMemory registers
RM_save_attr ==
    [initial_size |-> Always, max_size |-> Always,
     idx |-> Optional, full |-> Optional,
     states |-> Optional, actions |-> Optional, rewards |-> Optional,
     next_states |-> Optional, absorbing |-> Optional, last |-> Optional]

\* ReplayMemory._post_load
RM_post_load(loaded) ==
    IF loaded.full = Null
    THEN LET empty == Value([i \in 0..(loaded.max_size[2] - 1) |-> None])
         IN  [loaded EXCEPT !.idx = Value(0), !.full = Value(FALSE),
                            !.states = empty, !.actions = empty,
                            !.rewards = empty, !.next_states = empty,
                            !.absorbing = empty, !.last = empty]
    ELSE loaded

RM_restore(m, full_save) ==
    RM_post_load(Serializable_load(RM_save_attr, m, full_save))

\* the attributes PrioritizedReplayMemory registers (alpha, beta and
\* epsilon are registered like initial_size)
PRM_save_attr ==
    [initial_size |-> Always, max_size |-> Always, tree |-> Optional]

\* PrioritizedReplayMemory._post_load
PRM_post_load(loaded) ==
    IF loaded.tree = Null
    THEN [loaded EXCEPT !.tree = Value(ST_init(loaded.max_size[2]))]
    ELSE loaded

PRM_restore(m, full_save) ==
    PRM_post_load(Serializable_load(PRM_save_attr, m, full_save))

\* the attributes SequentialReplayMemory registers: full is none of its
\* attributes, and lengths and unfinished_episode are not registered
SQ_save_attr ==
    [initial_size |-> Primitive, max_size |-> Always, size |-> Always,
     unroll_steps |-> Optional, full |-> Optional,
     states |-> Optional, actions |-> Optional, rewards |-> Optional,
     next_states |-> Optional, absorbing |-> Optional, last |-> Optional]

\* SequentialReplayMemory defines no _post_load
SQ_restore(m, full_save) == Serializable_load(SQ_save_attr, m, full_save)

----------------------------------------------------------------------------
(* C17 *)

\* the attributes add, get and size read
RM_reads ==
    {"initial_size", "max_size", "idx", "full", "states", "actions",
     "rewards", "next_states", "absorbing", "last"}
PRM_reads == {"initial_size", "max_size", "tree"}
SQ_reads ==
    {"initial_size", "max_size", "unroll_steps", "size", "lengths",
     "states", "actions", "rewards", "next_states", "absorbing", "last",
     "unfinished_episode"}

\* C17 (as claimed): for each of the three memories, after a restore from a
\* snapshot without the optional fields every field add, get and size read
\* is rebuilt to its empty value, none is left null or missing; and after a
\* full snapshot the restored buffer has the contents of the original.
C17_RestoreNoNull ==
    \A full_save \in BOOLEAN :
        /\ rm # Idle =>
               /\ Usable(RM_restore(rm, full_save), RM_reads)
               /\ RM_restore(rm, full_save)
                      = AsLoaded(IF full_save THEN rm
                                 ELSE RM_init(rm.initial_size, rm.max_size))
        /\ pm # Idle =>
               /\ Usable(PRM_restore(pm, full_save), PRM_reads)
               /\ PRM_restore(pm, full_save)
                      = AsLoaded(IF full_save THEN pm
                                 ELSE PRM_init(pm.initial_size, pm.max_size))
        /\ sq # Idle =>
               /\ Usable(SQ_restore(sq, full_save), SQ_reads)
               /\ \A a \in SQ_reads :
                      SQ_restore(sq, full_save)[a]
                          = AsLoaded(IF full_save THEN sq
                                     ELSE SQ_init(sq.initial_size, sq.max_size,
                                                  sq.unroll_steps))[a]

\* C17 (what holds): the claim for ReplayMemory and PrioritizedReplayMemory;
\* a restored SequentialReplayMemory has neither lengths nor
\* unfinished_episode, a None full, and without a full save None lists and
\* a None unroll_steps.
C17_RingAndTreeRestore ==
    \A full_save \in BOOLEAN :
        /\ rm # Idle =>
               /\ Usable(RM_restore(rm, full_save), RM_reads)
               /\ RM_restore(rm, full_save)
                      = AsLoaded(IF full_save THEN rm
                                 ELSE RM_init(rm.initial_size, rm.max_size))
        /\ pm # Idle =>
               /\ Usable(PRM_restore(pm, full_save), PRM_reads)
               /\ PRM_restore(pm, full_save)
                      = AsLoaded(IF full_save THEN pm
                                 ELSE PRM_init(pm.initial_size, pm.max_size))
        /\ sq # Idle =>
               LET r == SQ_restore(sq, full_save)
               IN  /\ {"lengths", "unfinished_episode"} \cap DOMAIN r = {}
                   /\ r["full"] = Null
                   /\ r["size"] = Value(sq.size)
                   /\ r["states"] = IF full_save THEN Value(sq.states) ELSE Null
                   /\ r["unroll_steps"]
                          = IF full_save THEN Value(sq.unroll_steps) ELSE Null

----------------------------------------------------------------------------
(* C18 *)

\* normalised weights that are all finite and >= 0 with maximum exactly 1:
\* each is (num / den) ** beta with num <= den, and one has num = den
GoodWeights(w) ==
    /\ \A k \in DOMAIN w : w[k].kind = "pow" /\ w[k].num <= w[k].den
    /\ \E k \in DOMAIN w : w[k].num = w[k].den

\* C18 (as claimed): for every batch PrioritizedReplayMemory.get(n) returns
\* on a buffer with total priority > 0, the normalised weights have maximum
\* exactly 1.0 and are all >= 0; none is infinite or undefined, also when a
\* sampled leaf has priority 0.
C18_WeightBound ==
    ST_total_p(pm.tree) > 0 =>
        \A n \in 1..MaxSamples : \A o \in PRM_get(pm, n) :
            o.kind = "return" => GoodWeights(o.val[8])

\* C18 (what holds): on a buffer of size >= 1, the bound for every batch
\* whose sampled priorities are all > 0; a batch with a sampled priority 0
\* or below has only nan and 0 among its weights.
C18_WeightBoundPositive ==
    (ST_total_p(pm.tree) > 0 /\ ST_size(pm.tree) >= 1) =>
        \A n \in 1..MaxSamples : \A o \in PRM_get(pm, n) :
            o.kind = "return" =>
                LET sampled == {pm.tree.tree[o.val[7][k]] : k \in 1..n}
                IN  IF \A q \in sampled : q > 0
                    THEN GoodWeights(o.val[8])
                    ELSE \A k \in 1..n : o.val[8][k].kind \in {"nan", "zero"}

\* three written leaves 10, 10 and 0 in a tree of capacity 3: get(1) can
\* return the leaf of priority 0 with a nan weight
C18_ZeroLeafSampled ==
    /\ pm.max_size = 3 /\ pm.tree.full
    /\ pm.tree.tree[2] = 10 /\ pm.tree.tree[3] = 10 /\ pm.tree.tree[4] = 0
    /\ pm_out.op = "get" /\ pm_out.kind = "return"
    /\ pm_out.val[7][1] = 4
    /\ pm_out.val[8][1].kind = "nan"

----------------------------------------------------------------------------
(* C19 *)

\* get and get_batch_first with a count above initial_size can only fail
\* the assertion, whatever the buffer holds; with a count up to
\* initial_size they never do
C19_State ==
    \A n \in 1..(SeqMaxInit + 1) :
        IF n > sq.initial_size
        THEN /\ SQ_get(sq, n) = {Raised("get", "AssertionError")}
             /\ SQ_get_batch_first(sq, n)
                    = {Raised("get_batch_first", "AssertionError")}
        ELSE /\ Raised("get", "AssertionError") \notin SQ_get(sq, n)
             /\ Raised("get_batch_first", "AssertionError")
                    \notin SQ_get_batch_first(sq, n)

\* a get or get_batch_first step leaves the buffer as it was; it fails the
\* assertion only with a count above initial_size, and then always
C19_Step ==
    sq_out'.op \in {"get", "get_batch_first"} =>
        /\ sq' = sq
        /\ sq.initial_size = 0 => sq_out'.val = <<"AssertionError">>
        /\ sq_out'.val = <<"AssertionError">> => sq.initial_size < MaxSamples

\* C19: episodic batch-size precondition. get(batch_size) and
\* get_batch_first(n_samples) raise an assertion failure whenever the count
\* exceeds initial_size, in every buffer state, before any random draw and
\* without changing the buffer; a count <= initial_size never triggers it.
C19_BatchSizeAssert == []C19_State /\ [][C19_Step]_vars

\* C19 witness: get failed the assertion on a buffer that holds an episode
C19_Witness ==
    /\ sq_out = Raised("get", "AssertionError")
    /\ SQ_size(sq) > 0

----------------------------------------------------------------------------
(* C20 *)

\* the proper ancestors of node i, the root included
RECURSIVE Ancestors(_)
Ancestors(i) ==
    IF i <= 0 THEN {} ELSE {(i - 1) \div 2} \cup Ancestors((i - 1) \div 2)

\* the tree the claim describes after update([i], [p])
UpdatedTree(st, i, p) ==
    [st EXCEPT !.tree =
        [j \in DOMAIN st.tree |->
            IF j = i THEN p
            ELSE IF j \in Ancestors(i) THEN st.tree[j] + (p - st.tree[i])
            ELSE st.tree[j]]]

\* C20 (as claimed): for every max_size >= 1 and every leaf index i,
\* update([i], [p]) terminates, sets _tree[i] to p, adds p - old once to
\* each proper ancestor of i up to the root, and leaves every other node,
\* _data, _idx and _full unchanged.
C20_ExactEffect ==
    \A i \in Leaves(pm.max_size) : \A p \in Priorities :
        ST_update(pm.tree, <<i>>, <<p>>)
            = [st |-> UpdatedTree(pm.tree, i, p), raised |-> FALSE]

\* C20 (what holds): the claim for max_size >= 2; for max_size = 1 the call
\* ends in RecursionError.
C20_ExactEffectFromTwo ==
    \A i \in Leaves(pm.max_size) : \A p \in Priorities :
        IF pm.max_size >= 2
        THEN ST_update(pm.tree, <<i>>, <<p>>)
                 = [st |-> UpdatedTree(pm.tree, i, p), raised |-> FALSE]
        ELSE ST_update(pm.tree, <<i>>, <<p>>).raised

----------------------------------------------------------------------------
(* C21 *)

\* size >= 1, every written leaf has a priority > 0 and every other leaf
\* still holds the 0 it was created with
AllStoredPositive(st) ==
    /\ ST_size(st) >= 1
    /\ \A i \in Leaves(st.max_size) :
           IF i \in WrittenLeaves(st)
           THEN st.tree[i] > 0 /\ st.data[i - st.max_size + 1] # None
           ELSE st.tree[i] = 0 /\ st.data[i - st.max_size + 1] = None

\* C21 (as claimed): with size >= 1 and all stored priorities > 0, for every
\* s in [0, total_p) and every outcome of the tie-break, SumTree.get(s)
\* returns a written leaf (payload not None, priority > 0), so get(n) never
\* fails unpacking an empty slot.
C21_OnlyStored ==
    AllStoredPositive(pm.tree) =>
        /\ \A s \in 0..(ST_total_p(pm.tree) - 1) :
               \A r \in ST_get(pm.tree, s) :
                   /\ r[1] \in WrittenLeaves(pm.tree)
                   /\ r[2] > 0
                   /\ r[3] # None
        /\ \A n \in 1..MaxSamples :
               Raised("get", "TypeError") \notin PRM_get(pm, n)

\* C21 (what holds): the claim for a full tree, where every leaf is written.
C21_OnlyStoredWhenFull ==
    (AllStoredPositive(pm.tree) /\ pm.tree.full) =>
        /\ \A s \in 0..(ST_total_p(pm.tree) - 1) :
               \A r \in ST_get(pm.tree, s) :
                   /\ r[1] \in WrittenLeaves(pm.tree)
                   /\ r[2] > 0
                   /\ r[3] # None
        /\ \A n \in 1..MaxSamples :
               Raised("get", "TypeError") \notin PRM_get(pm, n)

\* two written leaves of priority 10 in a tree of capacity 3: the children
\* of the root tie, s > 10 is carried unchanged into the left subtree and
\* ends at the never-written leaf 4, and get(1) fails unpacking None
C21_TieReachesUnwritten ==
    /\ pm.max_size = 3 /\ ST_size(pm.tree) = 2
    /\ pm.tree.tree[2] = 10 /\ pm.tree.tree[3] = 10 /\ pm.tree.tree[4] = 0
    /\ pm.tree.data[2] = None
    /\ <<4, 0, None>> \in ST_get(pm.tree, 15)
    /\ pm_out = Raised("get", "TypeError")

----------------------------------------------------------------------------
(* C22 *)

\* the episodes of n steps add could be given next
NextEpisodes(n) ==
    {[i \in 1..n |-> Transition(fed + i, IF i = n THEN <<TRUE, TRUE>>
                                         ELSE <<FALSE, FALSE>>)]}

\* C22: the newest episode survives its own insertion. Whenever add stores
\* an episode, the eviction loop that follows does not remove it and stops
\* with at least one stored episode; after an add() that returns a value
\* > 0 the buffer is non-empty and its last stored episode is the last
\* episode that call accepted.
C22_NewestSurvives ==
    /\ \A n \in sq.unroll_steps..(sq.max_size - 1) :
           \A e \in NextEpisodes(n) :
               LET r == SQ_store(sq, e)
               IN  /\ Len(r.states) >= 1
                   /\ r.size > 0
                   /\ SQ_episode(r, Len(r.states)) = e
    /\ (sq_out.op = "add" /\ sq_out.kind = "return" /\ sq_out.val > 0) =>
           /\ Len(sq.states) >= 1
           /\ SQ_size(sq) > 0
           /\ sq_call.stored # <<>>
           /\ SQ_episode(sq, Len(sq.states))
                  = sq_call.stored[Len(sq_call.stored)]

\* C22 witness: an add stored two episodes of two steps in a buffer of
\* capacity 3, and the eviction after the second left only that one
C22_Witness ==
    /\ sq_out.op = "add" /\ sq_out.kind = "return" /\ sq_out.val = 2
    /\ sq.max_size = 3
    /\ Len(sq.states) = 1
    /\ sq.lengths = <<2>>
    /\ Len(sq_call.stored) = 2

====
